---- MODULE Spec2Model ----
(***************************************************************************)
(* A model of src/adapters/adapter.js: Adapter._loadCodeTreeInternal (the  *)
(* chunked conversion of a flat entry list into the tree widget's forest)  *)
(* and Adapter._handleError (the status classifier).                       *)
(*                                                                         *)
(* JavaScript values are represented as follows.                           *)
(*   - a string is a sequence of tokens (string literals of the source,    *)
(*     or atoms of the input); concatenation is \o;                        *)
(*   - a path is the sequence of its '/'-separated segments, so that       *)
(*     'a/b' is <<"a", "b">> and '' is <<"">> (what split('/') gives);     *)
(*   - an optional value is <<>> (undefined) or <<v>>;                     *)
(*   - the arrays the code shares by reference (folders[k] and             *)
(*     item.children are one array) live in a heap, `arrays`, and are      *)
(*     named by their index in it.                                         *)
(***************************************************************************)
EXTENDS Integers, Sequences, FiniteSets, TLC

VARIABLES
    pc,                 \* where the build stands: idle, getTree, getSubmodules, timer, done, thrown
    opts,               \* the opts object: node, encodedBranch (cached by line 25)
    repo,               \* opts.repo: username, reponame, branch, pullNumber
    transform,          \* whether a transform callback was passed
    icons,              \* this.store.get(STORE.ICONS)
    tree,               \* the entry objects _getTree hands over (mutated in place)
    gitmodules,         \* what _getSubmodules finds for the repository
    submodules,         \* the local `submodules` of the running build
    folders,            \* the local `folders`: key -> array reference
    arrays,             \* the heap of arrays
    iteration,          \* the argument of the pending nextChunk call
    cbLog,              \* every call of cb made so far, in order
    getTreeCalls,       \* calls of _getTree in the current build
    getSubmodulesCalls, \* calls of _getSubmodules in the current build
    yields,             \* setTimeout calls in the current build
    converted,          \* entries that went through the loop body in the current build
    rebuilt,            \* whether the second build has been started
    treeAtStart,        \* the entries as _getTree handed them to the current build
    firstForest,        \* what the first build delivered
    reported,           \* the errors the two fetches reported to the current build
    jqXHR,              \* _handleError: the response descriptor
    settings,           \* _handleError: the request settings
    headerReads,        \* _handleError: calls of jqXHR.getAllResponseHeaders
    errLog              \* _handleError: every call of its cb

builderVars == <<pc, opts, repo, transform, icons, tree, gitmodules, submodules,
                 folders, arrays, iteration, cbLog, getTreeCalls,
                 getSubmodulesCalls, yields, converted, rebuilt, treeAtStart,
                 firstForest, reported>>
errorVars == <<jqXHR, settings, headerReads, errLog>>
vars == <<builderVars, errorVars>>

----------------------------------------------------------------------------
(* Bounds of the model.                                                    *)

\* The longest entry list _getTree returns.
MaxLen == 4

\* Entries per scheduling slice.  The source fixes 300 (adapter.js:36); the
\* model scales it down so that lists of up to MaxLen entries cover zero,
\* one, exactly one chunk, one chunk plus one and several chunks.
CHUNK_SIZE == 2

\* The longest response-header string of _handleError, in tokens.
MaxHeaderLen == 3

----------------------------------------------------------------------------
(* Optional values and strings.                                            *)

None == <<>>
Some(v) == <<v>>
IsSome(o) == o # <<>>
Get(o) == o[1]

\* A template literal's ${o}: the string of the value, or "undefined".
Tpl(o) == IF IsSome(o) THEN Get(o) ELSE <<"undefined">>
TplNum(o) == IF IsSome(o) THEN <<ToString(Get(o))>> ELSE <<"undefined">>

Last(s) == s[Len(s)]

RECURSIVE Join(_, _)
\* segs.join(sep), for a sequence of strings.
Join(segs, sep) ==
    IF Len(segs) = 0 THEN <<>>
    ELSE IF Len(segs) = 1 THEN segs[1]
    ELSE segs[1] \o <<sep>> \o Join(Tail(segs), sep)

\* The string of a path: its segments joined by '/'.
PathStr(path) == Join([k \in 1..Len(path) |-> <<path[k]>>], "/")

\* $dummyDiv.text(s).html(): the HTML escape of one atom.
EscapeHtml(s) ==
    CASE s = "a&b.js" -> "a&amp;b.js"
      [] OTHER -> s

\* encodeURIComponent of one atom.
EncodeURIComponent(s) ==
    CASE s = "a&b.js" -> "a%26b.js"
      [] s = "/" -> "%2F"
      [] OTHER -> s

\* decodeURIComponent of one atom.
DecodeURIComponent(s) ==
    CASE s = "a%26b.js" -> "a&b.js"
      [] s = "%2F" -> "/"
      [] OTHER -> s

\* encodeURIComponent(decodeURIComponent(repo.branch)), token by token.
EncodeBranch(branch) ==
    [k \in 1..Len(branch) |-> EncodeURIComponent(DecodeURIComponent(branch[k]))]

\* path.split('/').map(encodeURIComponent).join('/')
EncodedPath(path) == PathStr([k \in 1..Len(path) |-> EncodeURIComponent(path[k])])

NODE_PREFIX == "octotree"

\* window.location.protocol of the page the extension runs in.
LocationProtocol == "https:"

\* FileIcons.getClassWithColor(name): a class, or nothing for unknown names.
FileIconsClass(name) ==
    CASE name = "a&amp;b.js" -> Some("js-icon medium-yellow")
      [] name = "a&b.js" -> Some("js-icon medium-yellow")
      [] OTHER -> None

----------------------------------------------------------------------------
(* The inputs.                                                             *)

NoPatch == None

Patch(action, previous, filesChanged, additions, deletions, diffId) ==
    [action |-> action, previous |-> previous, filesChanged |-> filesChanged,
     additions |-> additions, deletions |-> deletions, diffId |-> diffId]

\* A removed file as a pull request lists it: only action and previous.
RemovedPatch == Patch(Some("removed"), Some(<<"old", "/", "path.txt">>), None, None, None, None)
\* What the transform attaches to a file and to a directory.
AddedPatch == Patch(Some("added"), None, None, Some(1), Some(0), Some(0))
FolderPatch == Patch(None, None, Some(2), Some(3), Some(0), None)

NoChildren == [kind |-> "undefined", ref |-> 0]
LazyChildren == [kind |-> "true", ref |-> 0]
ArrayChildren(r) == [kind |-> "array", ref |-> r]

\* An entry as the hosting API reports it: nothing derived is set yet.
Entry(path, type, sha, url, patch) ==
    [path |-> path, type |-> type, sha |-> sha, url |-> url, patch |-> patch,
     id |-> None, text |-> None, icon |-> None, children |-> NoChildren,
     a_attr |-> None]

Sha == <<"4", "b", "8", "2", "5", "d", "c", "6", "4">>

SrcDir == Entry(<<"src">>, "tree", Some(Sha), None, NoPatch)
SrcFile == Entry(<<"src", "a&b.js">>, "blob", Some(Sha), Some(<<"https://api/", "blobs/", "1">>), NoPatch)
Readme == Entry(<<"README">>, "blob", Some(Sha), None, Some(RemovedPatch))
LibModule == Entry(<<"lib">>, "commit", Some(Sha), None, NoPatch)
\* A malformed entry: a submodule without its sha.
ExtModule == Entry(<<"ext">>, "commit", None, None, NoPatch)

Entries == {SrcDir, SrcFile, Readme, LibModule, ExtModule}

\* The entry lists: any order, no path listed twice.
EntryLists ==
    {t \in UNION {[1..n -> Entries] : n \in 0..MaxLen} :
        \A i, j \in 1..Len(t) : t[i] = t[j] => i = j}

GithubSsh == <<"git@", "github.com", ":", "o/r", ".git">>
GithubGit == <<"git://", "github.com", "/", "o/x", ".git">>
OtherHost == <<"https://", "example.org", "/", "r", ".git">>

\* What _getSubmodules may report: nothing, GitHub-hosted modules, another host.
Gitmodules ==
    {None,
     Some(<<"lib">> :> GithubSsh @@ <<"ext">> :> GithubGit),
     Some(<<"lib">> :> OtherHost)}

\* opts.node: absent (the whole forest) or the node being expanded.  A node may carry no path.
Nodes == {None, Some([path |-> Some(<<"docs">>)]), Some([path |-> None])}

Branches == {<<"master">>, <<"feature", "/", "x">>}

Errors == {"tree error", "network error"}

\* transform(item) as a pull-request adapter supplies it: it attaches the
\* entry's patch.
Transform(item) ==
    CASE item.type = "blob" -> [item EXCEPT !.patch = Some(AddedPatch)]
      [] item.type = "tree" -> [item EXCEPT !.patch = Some(FolderPatch)]
      [] OTHER -> item

----------------------------------------------------------------------------
(* The loop body of nextChunk, lines 46-159.                               *)

RootKey == <<"">>

\* path.substring(0, path.lastIndexOf('/')) as a path.
ParentKey(path) == IF Len(path) = 1 THEN RootKey ELSE SubSeq(path, 1, Len(path) - 1)

\* _getItemHref, line 372.
GetItemHref(r, type, encodedPath, encodedBranch) ==
    <<"/", r.username, "/", r.reponame, "/", type, "/">> \o encodedBranch
        \o <<"/">> \o encodedPath

\* _getPatchHref, line 379.
GetPatchHref(r, patch) ==
    <<"/", r.username, "/", r.reponame, "/pull/">> \o TplNum(r.pullNumber)
        \o <<"/files#diff-">> \o TplNum(patch.diffId)

\* if (item.patch.additions !== 0): an absent count is not 0.
AdditionsShown(patch) == patch.additions # Some(0)
DeletionsShown(patch) == patch.deletions # Some(0)

AdditionsBadge(patch) == <<"<span class=\"text-green\">+">> \o TplNum(patch.additions) \o <<"</span>">>
DeletionsBadge(patch) == <<"<span class=\"text-red\">-">> \o TplNum(patch.deletions) \o <<"</span>">>

\* patch_html, lines 77-103.
PatchHtml(patch) ==
    LET action ==
            CASE patch.action = Some("added") ->
                    <<"<span class=\"text-green\">added</span>">>
              [] patch.action = Some("renamed") ->
                    <<"<span class=\"text-green\" title=\"">> \o Tpl(patch.previous)
                        \o <<"\">renamed</span>">>
              [] patch.action = Some("removed") ->
                    <<"<span class=\"text-red\" title=\"">> \o Tpl(patch.previous)
                        \o <<"\">removed</span>">>
              [] OTHER -> <<>>
        files ==
            IF IsSome(patch.filesChanged) /\ Get(patch.filesChanged) # 0
            THEN <<"<span>", ToString(Get(patch.filesChanged)), " ",
                   IF Get(patch.filesChanged) = 1 THEN "file" ELSE "files", "</span>">>
            ELSE <<>>
        additions == IF AdditionsShown(patch) THEN AdditionsBadge(patch) ELSE <<>>
        deletions == IF DeletionsShown(patch) THEN DeletionsBadge(patch) ELSE <<>>
    IN  action \o files \o additions \o deletions

\* item.icon, lines 65-74.
Icon(type, name) ==
    IF type = "blob"
    THEN IF icons
         THEN <<type, " ", IF IsSome(FileIconsClass(name)) THEN Get(FileIconsClass(name))
                           ELSE "file-generic">>
         ELSE <<type, " file-generic">>
    ELSE <<type>>

\* The module URL rewritten for the web, lines 148-151.
WebUrl(url) ==
    LET a == IF url[1] \in {"git://", "git@"}
             THEN <<LocationProtocol, "//">> \o Tail(url) ELSE url
        hit == {k \in 1..(Len(a) - 1) : a[k] = "github.com" /\ a[k + 1] = ":"}
        first == CHOOSE k \in hit : \A m \in hit : k <= m
        b == IF hit = {} THEN a ELSE [a EXCEPT ![first + 1] = "/"]
    IN  IF Len(b) > 0 /\ Last(b) = ".git" THEN SubSeq(b, 1, Len(b) - 1) ELSE b

\* ~moduleUrl.indexOf('github.com')
IsGithub(url) == \E k \in 1..Len(url) : url[k] = "github.com"

\* A step of the loop: the state the body reads and writes (the entries, the
\* folders and their arrays, the submodule map), and whether it threw.
Step(t, f, a, thrown, subs) ==
    [tree |-> t, folders |-> f, arrays |-> a, thrown |-> thrown, submodules |-> subs]

\* arrays with item k pushed onto the array r.
Push(a, r, k) == [a EXCEPT ![r] = Append(@, k)]

\* The bucket the item is pushed to, lines 108-112: nothing when folders has
\* no such key (folders[...] is undefined, and .push on it throws).
Bucket(f, path) ==
    IF IsSome(opts.node) THEN Some(f[RootKey])
    ELSE IF ParentKey(path) \in DOMAIN f THEN Some(f[ParentKey(path)])
    ELSE None

\* Lines 46-54: the transform, then the lazy prefix of the path.
Prefixed(item) ==
    IF IsSome(opts.node) /\ IsSome(Get(opts.node).path)
    THEN [item EXCEPT !.path = Get(Get(opts.node).path) \o @]
    ELSE item
Transformed(item) == Prefixed(IF transform THEN Transform(item) ELSE item)

\* const name, line 59.
Name(item) == EscapeHtml(Last(item.path))

\* item.text after lines 62 and 76-106.
Text(item) ==
    IF IsSome(item.patch)
    THEN <<Name(item), "<span class=\"patch\">">> \o PatchHtml(Get(item.patch))
            \o <<"</span>">>
    ELSE <<Name(item)>>

\* Lines 56-106: id, text and icon set on the (transformed) item.
Labelled(item) ==
    [item EXCEPT !.id = Some(<<NODE_PREFIX>> \o PathStr(item.path)),
                 !.text = Some(Text(item)),
                 !.icon = Some(Icon(item.type, Name(item)))]

\* item.a_attr of a tree or blob, lines 121-140.
LinkAttr(item) ==
    IF IsSome(item.patch) /\ IsSome(Get(item.patch).diffId)
    THEN [href |-> Some(GetPatchHref(repo, Get(item.patch))),
          download_url |-> item.url,
          download_filename |-> Some(Name(item))]
    ELSE [href |-> Some(GetItemHref(repo, item.type, EncodedPath(item.path),
                                    Get(opts.encodedBranch))),
          download_url |-> Some(GetItemHref(repo, item.type, EncodedPath(item.path),
                                            Get(opts.encodedBranch))),
          download_filename |-> Some(Name(item))]

\* {href: moduleUrl}, line 157.
ModuleAttr(url) == [href |-> Some(url), download_url |-> None, download_filename |-> None]

\* item.text of a GitHub-hosted submodule, lines 152-155.
ModuleText(item, url) ==
    <<"<a href=\"">> \o url \o <<"\" class=\"jstree-anchor\">", Name(item), "</a>",
                                 "<span>@ </span>", "<a href=\"">>
        \o url \o <<"/tree/">> \o Get(item.sha) \o <<"\" class=\"jstree-anchor\">">>
        \o SubSeq(Get(item.sha), 1, IF Len(Get(item.sha)) < 7 THEN Len(Get(item.sha)) ELSE 7)
        \o <<"</a>">>

\* Lines 114-118 for a tree or blob already pushed: the children and the link.
\* In the full forest a tree registers a fresh array under its own path.
FileOrFolder(st, k, item) ==
    IF item.type = "tree" /\ ~IsSome(opts.node)
    THEN Step([st.tree EXCEPT ![k] =
                  [item EXCEPT !.children = ArrayChildren(Len(st.arrays) + 1),
                               !.a_attr = Some(LinkAttr(item))]],
              (item.path :> (Len(st.arrays) + 1)) @@ st.folders,
              Append(st.arrays, <<>>), FALSE, st.submodules)
    ELSE Step([st.tree EXCEPT ![k] =
                  [item EXCEPT !.children = IF item.type = "tree" THEN LazyChildren ELSE @,
                               !.a_attr = Some(LinkAttr(item))]],
              st.folders, st.arrays, FALSE, st.submodules)

\* Lines 141-159 for a commit already pushed.  item.sha.substr throws when the
\* entry has no sha; item.text and item.a_attr are then left as they were.
Submodule(st, k, item) ==
    IF item.path \in DOMAIN st.submodules /\ st.submodules[item.path] # <<>>
    THEN IF IsGithub(st.submodules[item.path])
         THEN IF IsSome(item.sha)
              THEN Step([st.tree EXCEPT ![k] =
                            [item EXCEPT !.text = Some(ModuleText(item, WebUrl(st.submodules[item.path]))),
                                         !.a_attr = Some(ModuleAttr(WebUrl(st.submodules[item.path])))]],
                        st.folders, st.arrays, FALSE, st.submodules)
              ELSE Step([st.tree EXCEPT ![k] = item], st.folders, st.arrays, TRUE, st.submodules)
         ELSE Step([st.tree EXCEPT ![k] =
                       [item EXCEPT !.a_attr = Some(ModuleAttr(st.submodules[item.path]))]],
                   st.folders, st.arrays, FALSE, st.submodules)
    ELSE Step([st.tree EXCEPT ![k] = item], st.folders, st.arrays, FALSE, st.submodules)

\* Lines 108-159 for the labelled item: the push, then the rest by type.
Placed(st, k, item) ==
    IF ~IsSome(Bucket(st.folders, item.path))
    THEN Step([st.tree EXCEPT ![k] = item], st.folders, st.arrays, TRUE, st.submodules)
    ELSE IF item.type \in {"tree", "blob"}
    THEN FileOrFolder(Step(st.tree, st.folders,
                           Push(st.arrays, Get(Bucket(st.folders, item.path)), k), FALSE, st.submodules),
                      k, item)
    ELSE IF item.type = "commit"
    THEN Submodule(Step(st.tree, st.folders,
                        Push(st.arrays, Get(Bucket(st.folders, item.path)), k), FALSE, st.submodules),
                   k, item)
    ELSE Step([st.tree EXCEPT ![k] = item], st.folders,
              Push(st.arrays, Get(Bucket(st.folders, item.path)), k), FALSE, st.submodules)

\* Lines 46-159 for the entry tree[k].
ConvertItem(st, k) == Placed(st, k, Labelled(Transformed(st.tree[k])))

----------------------------------------------------------------------------
(* nextChunk, lines 35-163.                                                *)

\* The index with the chunks one entry too far apart: the entry after each
\* full chunk is never read.
ItemIndexSkipping(it, i) == it * (CHUNK_SIZE + 1) + i

\* The index (from 0) of the entry the loop reads, line 39.
ItemIndex(it, i) == it * CHUNK_SIZE + i

RECURSIVE ChunkLoop(_, _, _, _)
\* The for loop of one nextChunk call from its i-th round on; n counts the
\* entries that went through the whole body.  It ends by calling cb (line
\* 43), by an exception, or by falling out of the loop to setTimeout.
ChunkLoop(st, it, i, n) ==
    IF i >= CHUNK_SIZE THEN [outcome |-> "yield", st |-> st, n |-> n]
    ELSE IF ItemIndex(it, i) + 1 > Len(st.tree) \/ ItemIndex(it, i) < 0
    THEN [outcome |-> "cb", st |-> st, n |-> n]
    ELSE LET next == ConvertItem(st, ItemIndex(it, i) + 1)
         IN  IF next.thrown THEN [outcome |-> "thrown", st |-> next, n |-> n]
             ELSE ChunkLoop(next, it, i + 1, n + 1)

RECURSIVE Render(_, _, _)
\* The forest the widget reads from the array r: each node's id, text, icon,
\* a_attr and children, the nested arrays followed.
Render(t, a, r) ==
    [k \in 1..Len(a[r]) |->
        LET item == t[a[r][k]]
        IN  [id |-> item.id, text |-> item.text, icon |-> item.icon,
             a_attr |-> item.a_attr,
             children |-> [kind |-> item.children.kind,
                           nodes |-> IF item.children.kind = "array"
                                     THEN Render(t, a, item.children.ref)
                                     ELSE <<>>]]]

\* A call of cb.
CbCall(err, result) == [err |-> err, result |-> result]

\* nextChunk(it), entered with the submodule map subs.
NextChunk(it, subs) ==
    LET run == ChunkLoop(Step(tree, folders, arrays, FALSE, subs), it, 0, 0)
    IN  /\ submodules' = subs
        /\ tree' = run.st.tree
        /\ folders' = run.st.folders
        /\ arrays' = run.st.arrays
        /\ converted' = converted + run.n
        /\ IF run.outcome = "cb"
           THEN /\ cbLog' = Append(cbLog, CbCall(None, Some(run.st.folders[RootKey])))
                /\ firstForest' =
                      IF rebuilt THEN firstForest
                      ELSE Some(Render(run.st.tree, run.st.arrays, run.st.folders[RootKey]))
                /\ pc' = "done"
                /\ UNCHANGED <<iteration, yields>>
           ELSE IF run.outcome = "thrown"
           THEN /\ pc' = "thrown"
                /\ UNCHANGED <<cbLog, firstForest, iteration, yields>>
           ELSE /\ pc' = "timer"
                /\ iteration' = it + 1
                /\ yields' = yields + 1
                /\ UNCHANGED <<cbLog, firstForest>>

----------------------------------------------------------------------------
(* _loadCodeTreeInternal, lines 20-168.                                    *)

\* The last build delivered a forest.
Delivered == pc = "done" /\ Len(cbLog) > 0 /\ IsSome(Last(cbLog).result)

\* The call itself, lines 21-27: a fresh folders, the branch encoded once and
\* cached on opts, and _getTree called.  The second call passes the same opts
\* and transform, and _getTree hands over the same entry objects.
LoadCodeTreeInternal ==
    /\ \/ pc = "idle"
       \/ Delivered /\ ~rebuilt
    /\ rebuilt' = (pc = "done")
    /\ arrays' = Append(arrays, <<>>)
    /\ folders' = (RootKey :> (Len(arrays) + 1))
    /\ opts' = [opts EXCEPT !.encodedBranch =
                    IF IsSome(@) /\ Get(@) # <<>> THEN @
                    ELSE Some(EncodeBranch(repo.branch))]
    /\ getTreeCalls' = 1
    /\ getSubmodulesCalls' = 0
    /\ yields' = 0
    /\ converted' = 0
    /\ iteration' = 0
    /\ cbLog' = <<>>
    /\ reported' = [getTree |-> None, getSubmodules |-> None]
    /\ pc' = "getTree"
    /\ UNCHANGED <<repo, transform, icons, tree, gitmodules, submodules,
                   treeAtStart, firstForest, errorVars>>

\* Line 28 without its return: cb gets the error, and the callback goes on to
\* call _getSubmodules.
GetTreeFailNoReturn(err) ==
    /\ pc = "getTree"
    /\ reported' = [reported EXCEPT !.getTree = Some(err)]
    /\ cbLog' = Append(cbLog, CbCall(Some(err), None))
    /\ getSubmodulesCalls' = getSubmodulesCalls + 1
    /\ pc' = "getSubmodules"
    /\ UNCHANGED <<opts, repo, transform, icons, tree, gitmodules, submodules,
                   folders, arrays, iteration, getTreeCalls, yields, converted,
                   rebuilt, treeAtStart, firstForest, errorVars>>

\* _getTree answers with an error, line 28.
GetTreeFail(err) ==
    /\ pc = "getTree"
    /\ reported' = [reported EXCEPT !.getTree = Some(err)]
    /\ cbLog' = Append(cbLog, CbCall(Some(err), None))
    /\ pc' = "done"
    /\ UNCHANGED <<opts, repo, transform, icons, tree, gitmodules, submodules,
                   folders, arrays, iteration, getTreeCalls, getSubmodulesCalls,
                   yields, converted, rebuilt, treeAtStart, firstForest, errorVars>>

\* _getTree answers with the entries, lines 28-30: _getSubmodules is called.
GetTreeOk ==
    /\ pc = "getTree"
    /\ treeAtStart' = tree
    /\ getSubmodulesCalls' = getSubmodulesCalls + 1
    /\ pc' = "getSubmodules"
    /\ UNCHANGED <<opts, repo, transform, icons, tree, gitmodules, submodules,
                   folders, arrays, iteration, cbLog, getTreeCalls, yields,
                   converted, rebuilt, firstForest, reported, errorVars>>

\* _getSubmodules answers with an error, line 31.
GetSubmodulesFail(err) ==
    /\ pc = "getSubmodules"
    /\ reported' = [reported EXCEPT !.getSubmodules = Some(err)]
    /\ cbLog' = Append(cbLog, CbCall(Some(err), None))
    /\ pc' = "done"
    /\ UNCHANGED <<opts, repo, transform, icons, tree, gitmodules, submodules,
                   folders, arrays, iteration, getTreeCalls, getSubmodulesCalls,
                   yields, converted, rebuilt, treeAtStart, firstForest, errorVars>>

\* _getSubmodules answers with the map (or nothing), lines 31-33 and 165: the
\* first chunk runs in the same callback.
GetSubmodulesOk ==
    /\ pc = "getSubmodules"
    /\ NextChunk(0, IF IsSome(gitmodules) THEN Get(gitmodules) ELSE <<>>)
    /\ UNCHANGED <<opts, repo, transform, icons, gitmodules, getTreeCalls,
                   getSubmodulesCalls, rebuilt, treeAtStart, reported, errorVars>>

\* The timer of line 162 fires: the next chunk.
Timer ==
    /\ pc = "timer"
    /\ NextChunk(iteration, submodules)
    /\ UNCHANGED <<opts, repo, transform, icons, gitmodules, getTreeCalls,
                   getSubmodulesCalls, rebuilt, treeAtStart, reported, errorVars>>

----------------------------------------------------------------------------
(* _handleError, lines 174-237.                                            *)

\* The atoms response headers are made of.
HeaderTokens == {"X-RateLimit-Remaining: ", "0", "59"}

\* 'X-RateLimit-Remaining: 0', line 212.
RateLimitMarker == <<"X-RateLimit-Remaining: ", "0">>

Statuses == {0, 200, 206, 401, 403, 404, 409, 500, 502}
StatusTexts == {<<"Internal Server Error">>, <<"Bad Gateway">>}

Responses ==
    [status : Statuses, statusText : StatusTexts,
     headers : UNION {[1..n -> HeaderTokens] : n \in 0..MaxHeaderLen}]

Requests == {[headers |-> <<>>], [headers |-> <<"Authorization: token ", "t0k3n">>]}

RECURSIVE IndexFrom(_, _, _)
\* s.indexOf(sub) searched from position i on (positions count from 0).
IndexFrom(s, sub, i) ==
    IF i + Len(sub) > Len(s) THEN -1
    ELSE IF SubSeq(s, i + 1, i + Len(sub)) = sub THEN i
    ELSE IndexFrom(s, sub, i + 1)

IndexOf(s, sub) == IndexFrom(s, sub, 0)

\* The operator ~ on a small integer.
BitNot(n) == -n - 1

\* Line 212 without its ~: true unless the marker opens the headers.
RateLimitedNoTilde(headers) == IndexOf(headers, RateLimitMarker) # 0

\* The condition of line 212: a number, true unless it is 0.
RateLimited(headers) == BitNot(IndexOf(headers, RateLimitMarker)) # 0

\* octotree.getInvalidTokenMessage({responseStatus, requestHeaders}), which
\* lives outside this file: the text it is asked for.
InvalidTokenMessage(status, requestHeaders) ==
    <<"getInvalidTokenMessage:", ToString(status)>> \o requestHeaders

TokenPrompt ==
    <<"Accessing private repositories requires a GitHub access token. ",
      "Please go to <a class=\"settings-btn\" href=\"javascript:void(0)\">Settings</a> and enter a token.">>

\* The first statement of case 206, line 191: what message is assigned.
TooLargeGuidance == "This repository is too large to load in a single request. "

\* The string of lines 192-194: an expression statement of its own, whose
\* value is dropped.
SettingsSuggestion ==
    <<"If you frequently work with this repository, go to the ",
      "<a class=\"settings-btn\" href=\"javascript:void(0)\">Settings</a> screen ",
      "and uncheck the \"Load entire tree at once\" option.">>

\* The switch without its default case: error stays undefined.
ErrorOfNoFallback(xhr) ==
    CASE xhr.status = 0 -> <<"Connection error">>
      [] xhr.status = 409 -> <<"Empty repository">>
      [] xhr.status = 206 -> <<"Repo too large">>
      [] xhr.status = 401 -> <<"Invalid token">>
      [] xhr.status = 404 -> <<"Private repository">>
      [] xhr.status = 403 ->
            IF RateLimited(xhr.headers) THEN <<"API limit exceeded">> ELSE <<"Forbidden">>
      [] OTHER -> <<"undefined">>

\* `error` after the switch, lines 178-232.
ErrorOf(xhr) ==
    CASE xhr.status = 0 -> <<"Connection error">>
      [] xhr.status = 409 -> <<"Empty repository">>
      [] xhr.status = 206 -> <<"Repo too large">>
      [] xhr.status = 401 -> <<"Invalid token">>
      [] xhr.status = 404 -> <<"Private repository">>
      [] xhr.status = 403 ->
            IF RateLimited(xhr.headers) THEN <<"API limit exceeded">> ELSE <<"Forbidden">>
      [] OTHER -> xhr.statusText

\* `message` after the switch, lines 178-232.
MessageOf(req, xhr) ==
    CASE xhr.status = 0 ->
            <<"Cannot connect to website.",
              "If your network connection to this website is fine, maybe there is an outage of the API.",
              "Please try again later.">>
      [] xhr.status = 409 -> <<"This repository is empty.">>
      [] xhr.status = 206 -> <<TooLargeGuidance>>
      [] xhr.status = 401 -> InvalidTokenMessage(xhr.status, req.headers)
      [] xhr.status = 404 -> TokenPrompt
      [] xhr.status = 403 ->
            IF RateLimited(xhr.headers)
            THEN <<"You have exceeded the <a href=\"https://developer.github.com/v3/#rate-limiting\">GitHub API rate limit</a>. ",
                   "To continue using Octotree, you need to provide a GitHub access token. ",
                   "Please go to <a class=\"settings-btn\" href=\"javascript:void(0)\">Settings</a> and enter a token.">>
            ELSE TokenPrompt
      [] OTHER -> xhr.statusText

\* The calls of jqXHR.getAllResponseHeaders() the switch makes: line 212 only.
HeaderReadsOf(xhr) == IF xhr.status = 403 THEN 1 ELSE 0

\* The object handed to cb, lines 233-236.
ErrorPair(req, xhr) == [error |-> <<"Error: ">> \o ErrorOf(xhr), message |-> MessageOf(req, xhr)]

\* _handleError(settings, jqXHR, cb), called once for a failed request.
HandleError ==
    /\ IsSome(jqXHR)
    /\ errLog = <<>>
    /\ headerReads' = headerReads + HeaderReadsOf(Get(jqXHR))
    /\ errLog' = Append(errLog, ErrorPair(Get(settings), Get(jqXHR)))
    /\ UNCHANGED <<jqXHR, settings, builderVars>>

----------------------------------------------------------------------------
(* The tree builder: a build, and a second build of the same entries.      *)

Init ==
    /\ pc = "idle"
    /\ opts \in [node : Nodes, encodedBranch : {None}]
    /\ repo \in [username : {"octo"}, reponame : {"tree"}, branch : Branches,
                 pullNumber : {Some(7)}]
    /\ transform \in BOOLEAN
    /\ icons \in BOOLEAN
    /\ tree \in EntryLists
    /\ gitmodules \in Gitmodules
    /\ submodules = <<>>
    /\ folders = <<>>
    /\ arrays = <<>>
    /\ iteration = 0
    /\ cbLog = <<>>
    /\ getTreeCalls = 0
    /\ getSubmodulesCalls = 0
    /\ yields = 0
    /\ converted = 0
    /\ rebuilt = FALSE
    /\ treeAtStart = <<>>
    /\ firstForest = None
    /\ reported = [getTree |-> None, getSubmodules |-> None]
    /\ jqXHR = None
    /\ settings = None
    /\ headerReads = 0
    /\ errLog = <<>>

Next ==
    \/ LoadCodeTreeInternal
    \/ \E err \in Errors : GetTreeFail(err)
    \/ GetTreeOk
    \/ \E err \in Errors : GetSubmodulesFail(err)
    \/ GetSubmodulesOk
    \/ Timer

Spec == Init /\ [][Next]_vars

----------------------------------------------------------------------------
(* The error classifier: one failed request, classified once.              *)

ErrInit ==
    /\ pc = "idle"
    /\ opts = [node |-> None, encodedBranch |-> None]
    /\ repo = [username |-> "octo", reponame |-> "tree", branch |-> <<"master">>,
               pullNumber |-> Some(7)]
    /\ transform = FALSE
    /\ icons = FALSE
    /\ tree = <<>>
    /\ gitmodules = None
    /\ submodules = <<>>
    /\ folders = <<>>
    /\ arrays = <<>>
    /\ iteration = 0
    /\ cbLog = <<>>
    /\ getTreeCalls = 0
    /\ getSubmodulesCalls = 0
    /\ yields = 0
    /\ converted = 0
    /\ rebuilt = FALSE
    /\ treeAtStart = <<>>
    /\ firstForest = None
    /\ reported = [getTree |-> None, getSubmodules |-> None]
    /\ \E xhr \in Responses : jqXHR = Some(xhr)
    /\ \E req \in Requests : settings = Some(req)
    /\ headerReads = 0
    /\ errLog = <<>>

ErrNext == HandleError

ErrSpec == ErrInit /\ [][ErrNext]_vars

----------------------------------------------------------------------------
(* The properties.                                                         *)

\* The forest the current build handed to cb.
DeliveredForest == Render(tree, arrays, Get(Last(cbLog).result))

\* The current build has come to rest: cb was called, or an exception left
\* the callback or the timer with nothing further scheduled.
AtRest == pc \in {"done", "thrown"}

RECURSIVE FlattenFrom(_, _, _, _)
\* The entries (by position in the list) found in the array r from its k-th
\* node on, each followed by those of its nested array.
FlattenFrom(t, a, r, k) ==
    IF k > Len(a[r]) THEN <<>>
    ELSE <<a[r][k]>>
            \o (IF t[a[r][k]].children.kind = "array"
                THEN FlattenFrom(t, a, t[a[r][k]].children.ref, 1) ELSE <<>>)
            \o FlattenFrom(t, a, r, k + 1)

\* The arrays of the delivered forest: the root bucket and every children array.
DeliveredBuckets ==
    {Get(Last(cbLog).result)}
        \cup {tree[k].children.ref : k \in {j \in 1..Len(tree) : tree[j].children.kind = "array"}}

\* Every entry is in the delivered forest exactly once, and every bucket lists
\* its entries in the order of the input.
OnePerEntryInOrder ==
    LET flat == FlattenFrom(tree, arrays, Get(Last(cbLog).result), 1)
    IN  /\ Len(flat) = Len(tree)
        /\ \A k \in 1..Len(tree) : Cardinality({i \in 1..Len(flat) : flat[i] = k}) = 1
        /\ \A r \in DeliveredBuckets :
              \A i, j \in 1..Len(arrays[r]) : i < j => arrays[r][i] < arrays[r][j]

\* C1: in full-forest mode, whatever the order of the entries, the build
\* delivers a forest that holds each input entry exactly once, the entries of
\* each bucket in input order.
C1_OneNodePerEntry ==
    (AtRest /\ getSubmodulesCalls = 1 /\ ~IsSome(reported.getSubmodules)
        /\ ~IsSome(opts.node))
        => (Delivered /\ OnePerEntryInOrder)

RECURSIVE WholePass(_, _)
\* The entries converted one after the other in a single pass, from the k-th.
WholePass(st, k) ==
    IF k > Len(st.tree) \/ st.thrown THEN st
    ELSE WholePass(ConvertItem(st, k), k + 1)

\* The single pass over the entries as _getTree handed them over.
Unchunked == WholePass(Step(treeAtStart, RootKey :> 1, << <<>> >>, FALSE, submodules), 1)

\* C2: what the chunked loop delivers is what one unchunked pass over the
\* same list produces, and it delivers nothing exactly when that pass throws.
C2_ChunkingTransparent ==
    /\ Delivered =>
          /\ ~Unchunked.thrown
          /\ DeliveredForest = Render(Unchunked.tree, Unchunked.arrays, 1)
    /\ pc = "thrown" => Unchunked.thrown

\* A forest delivered after two timer yields: several chunks.
C2_Witness == Delivered /\ yields >= 2 /\ Len(tree) > CHUNK_SIZE

\* C3: an error of _getTree goes to cb as it is, with _getSubmodules never
\* called and no entry converted; an error of _getSubmodules goes to cb as it
\* is, with no forest; neither fetch is called twice in a build.
C3_FetchFailuresVerbatim ==
    /\ getTreeCalls <= 1
    /\ getSubmodulesCalls <= 1
    /\ IsSome(reported.getTree) =>
          /\ cbLog = <<CbCall(reported.getTree, None)>>
          /\ getSubmodulesCalls = 0
          /\ converted = 0
          /\ pc = "done"
    /\ IsSome(reported.getSubmodules) =>
          /\ cbLog = <<CbCall(reported.getSubmodules, None)>>
          /\ converted = 0
          /\ pc = "done"

\* _getSubmodules failed after _getTree had answered with entries.
C3_Witness ==
    /\ IsSome(reported.getSubmodules)
    /\ getTreeCalls = 1
    /\ Len(treeAtStart) > 0
    /\ Len(cbLog) = 1

\* C4: no exception leaves the fetch callbacks or the timer chunks, whatever
\* the entries.
C4_NothingThrown == pc # "thrown"

HasToken(text, token) == \E k \in 1..Len(text) : text[k] = token
HasAdditionsBadge(text) == HasToken(text, "<span class=\"text-green\">+")
HasDeletionsBadge(text) == HasToken(text, "<span class=\"text-red\">-")

\* C8: a converted entry with a patch shows an additions badge only when
\* patch.additions is present and not zero, and a deletions badge only when
\* patch.deletions is present and not zero.
C8_BadgesOnlyForCounts ==
    \A k \in 1..Len(tree) :
        (IsSome(tree[k].text) /\ IsSome(tree[k].patch)) =>
            /\ HasAdditionsBadge(Get(tree[k].text)) =>
                  (IsSome(Get(tree[k].patch).additions) /\ Get(tree[k].patch).additions # Some(0))
            /\ HasDeletionsBadge(Get(tree[k].text)) =>
                  (IsSome(Get(tree[k].patch).deletions) /\ Get(tree[k].patch).deletions # Some(0))

\* C9: the second build of the same entries with the same options delivers
\* what the first delivered.
C9_SecondBuildIdentical == (Delivered /\ rebuilt) => DeliveredForest = Get(firstForest)

\* C10: a build whose fetches have answered comes to rest with cb called
\* exactly once; a delivered result comes after all entries were converted
\* and after floor(n / CHUNK_SIZE) timer yields.
C10_CbExactlyOnce ==
    AtRest =>
        /\ Len(cbLog) = 1
        /\ Delivered => (converted = Len(tree) /\ yields = Len(tree) \div CHUNK_SIZE)

----------------------------------------------------------------------------
(* The properties of the classifier.                                       *)

Handled == Len(errLog) > 0
Outcome == errLog[1]

\* The headers hold the marker somewhere.
ContainsMarker(headers) ==
    \E i \in 1..Len(headers) :
        i + Len(RateLimitMarker) - 1 <= Len(headers)
            /\ SubSeq(headers, i, i + Len(RateLimitMarker) - 1) = RateLimitMarker

\* C5: the decision table, the headers read for status 403 alone, and cb
\* called once.
C5_DecisionTable ==
    Handled =>
        LET xhr == Get(jqXHR)
        IN  /\ Len(errLog) = 1
            /\ headerReads = (IF xhr.status = 403 THEN 1 ELSE 0)
            /\ xhr.status = 0 => Outcome.error = <<"Error: ", "Connection error">>
            /\ xhr.status = 409 => Outcome.error = <<"Error: ", "Empty repository">>
            /\ xhr.status = 206 => Outcome.error = <<"Error: ", "Repo too large">>
            /\ xhr.status = 401 => Outcome.error = <<"Error: ", "Invalid token">>
            /\ xhr.status = 404 => Outcome.error = <<"Error: ", "Private repository">>
            /\ (xhr.status = 403 /\ ContainsMarker(xhr.headers)) =>
                  Outcome.error = <<"Error: ", "API limit exceeded">>
            /\ (xhr.status = 403 /\ ~ContainsMarker(xhr.headers)) =>
                  Outcome.error = <<"Error: ", "Forbidden">>

\* A 403 whose headers hold the marker after other headers.
C5_Witness ==
    /\ Handled
    /\ Get(jqXHR).status = 403
    /\ Len(Get(jqXHR).headers) = 3
    /\ Get(jqXHR).headers[1] = "59"
    /\ ContainsMarker(Get(jqXHR).headers)

MappedStatuses == {0, 409, 206, 401, 404, 403}

\* C6 as stated: for an unmapped status, error and message both equal the
\* status text.
C6_FallbackBothStatusText ==
    (Handled /\ Get(jqXHR).status \notin MappedStatuses) =>
        /\ Outcome.error = Get(jqXHR).statusText
        /\ Outcome.message = Get(jqXHR).statusText

\* C6 as amended: for an unmapped status, message equals the status text and
\* error is 'Error: ' followed by the status text.
C6_FallbackStatusText ==
    (Handled /\ Get(jqXHR).status \notin MappedStatuses) =>
        /\ Outcome.error = <<"Error: ">> \o Get(jqXHR).statusText
        /\ Outcome.message = Get(jqXHR).statusText

\* A status 500 classified.
C6_Witness == Handled /\ Get(jqXHR).status = 500

\* C7: for status 206 the message holds the too-large guidance and the
\* suggestion to untick "Load entire tree at once" in the Settings.
C7_TooLargeMessage ==
    (Handled /\ Get(jqXHR).status = 206) =>
        /\ HasToken(Outcome.message, TooLargeGuidance)
        /\ \A k \in 1..Len(SettingsSuggestion) : HasToken(Outcome.message, SettingsSuggestion[k])

====
